---- MODULE Spec2Model ----
(***************************************************************************)
(* Model of e621-noapi-cli: the tag filter of PostsSearchQueryManager      *)
(* (e6query.py), its copy in SearchQuery (e6search.py, e6db.py), the       *)
(* search-string parser build_search_query (e6query.py) and the sorting    *)
(* steps of main (cli.py).                                                 *)
(*                                                                         *)
(* A data frame is a sequence of rows; a row carries the label of the      *)
(* frame's index (idx, the position the row had when the export was read)  *)
(* and the columns the modelled code reads.  A Python str is the sequence  *)
(* of its characters.  An Optional[Set[str]] argument is a record          *)
(* [isNone, tags].                                                         *)
(***************************************************************************)
EXTENDS Integers, Sequences, FiniteSets, TLC

VARIABLES e6_df, posts_df, pc, ret, disk, net, local, export

vars == <<e6_df, posts_df, pc, ret, disk, net, local, export>>

(***************************************************************************)
(* Bounds of the model.                                                    *)
(***************************************************************************)
MaxRows == 2
MaxFav == 1
MaxQueryLen == 2
MaxRepeats == 2
MaxTargets == 1

Tags == {"wolf", "fox", "bear"}

RatingValues == {"e", "s"}

(***************************************************************************)
(* Python values.                                                          *)
(***************************************************************************)
NoneArg == [isNone |-> TRUE, tags |-> {}]

SomeSet(S) == [isNone |-> FALSE, tags |-> S]

OptionalSets == {NoneArg} \cup {SomeSet(S) : S \in SUBSET Tags}

\* truth value of an Optional[Set[str]]: None and the empty set are false
Truthy(a) == ~a.isNone /\ a.tags # {}

\* the frame attribute of a DBExport that no code has assigned yet
Unset == <<[idx |-> -1, tags |-> {}]>>

RECURSIVE SeqsUpTo(_, _)
SeqsUpTo(S, n) ==
    IF n = 0 THEN {<<>>}
    ELSE LET shorter == SeqsUpTo(S, n - 1)
         IN  shorter \cup {Append(s, x) : s \in {t \in shorter : Len(t) = n - 1}, x \in S}

\* a frame as read_csv builds it: row i carries the RangeIndex label i - 1
WithIndex(cols) == [i \in 1..Len(cols) |-> [idx |-> i - 1] @@ cols[i]]

TagFrames == {WithIndex(c) : c \in SeqsUpTo({[tags |-> t] : t \in SUBSET Tags}, MaxRows)}

PostFrames ==
    {WithIndex(c) : c \in SeqsUpTo(
        [tags : {{}, {"wolf"}}, fav_count : 0..MaxFav, score : 0..MaxFav, rating : RatingValues],
        MaxRows)}

(***************************************************************************)
(* e6query.py: PostsSearchQueryManager.build_query_function                *)
(***************************************************************************)
\* mutant: any() where the code has all()
and_success_any(and_tags, tags) ==
    ~Truthy(and_tags) \/ (\E and_tag \in and_tags.tags : and_tag \in tags)

and_success(and_tags, tags) ==
    ~Truthy(and_tags) \/ (\A and_tag \in and_tags.tags : and_tag \in tags)

\* mutant: "not all" where the code has "not any"
not_success_all(not_tags, tags) ==
    ~Truthy(not_tags) \/ ~(\A not_tag \in not_tags.tags : not_tag \in tags)

not_success(not_tags, tags) ==
    ~Truthy(not_tags) \/ ~(\E not_tag \in not_tags.tags : not_tag \in tags)

\* mutant: the "not or_tags or" guard is lost
or_success_unguarded(or_tags, tags) ==
    \E or_tag \in or_tags.tags : or_tag \in tags

or_success(or_tags, tags) ==
    ~Truthy(or_tags) \/ (\E or_tag \in or_tags.tags : or_tag \in tags)

query_function(and_tags, not_tags, or_tags, tags) ==
    IF ~and_success(and_tags, tags) THEN FALSE
    ELSE IF ~not_success(not_tags, tags) THEN FALSE
    ELSE IF ~or_success(or_tags, tags) THEN FALSE
    ELSE and_success(and_tags, tags) /\ not_success(not_tags, tags)
            /\ or_success(or_tags, tags)

RECURSIVE Reverse(_)
Reverse(s) == IF s = <<>> THEN <<>> ELSE Append(Reverse(Tail(s)), Head(s))

\* mutant: the selected rows are collected last-first
BooleanMask_reversed(df, and_tags, not_tags, or_tags) ==
    Reverse(SelectSeq(df, LAMBDA row : query_function(and_tags, not_tags, or_tags, row.tags)))

\* df[df["tags"].map(f)]: the rows whose mask is True, in the frame's order
BooleanMask(df, and_tags, not_tags, or_tags) ==
    SelectSeq(df, LAMBDA row : query_function(and_tags, not_tags, or_tags, row.tags))

\* no export file at local_path()
NoFile == [exists |-> FALSE, rows |-> <<>>]

\* the server answers, and no request was sent
NoNet == [status |-> 200, has_length |-> TRUE, requests |-> <<>>]

\* DBExport(): export_target TAGS, days_ago 0, refresh False
DefaultExport == [export_target |-> "TAGS", days_ago |-> 0, refresh |-> FALSE]

\* no call in flight, no evaluation made
NoLocal == [calls |-> 0]

NoRet ==
    [op |-> "none", and_tags |-> NoneArg, not_tags |-> NoneArg, or_tags |-> NoneArg,
     query_string |-> <<>>, raised |-> "none", frame |-> <<>>, value |-> [kind |-> "None"]]

\* mutant: a query whose required and excluded sets overlap is refused
filter_validating(df, and_tags, not_tags, or_tags) ==
    IF df = Unset
    THEN [raised |-> "AttributeError", frame |-> <<>>]
    ELSE IF and_tags.tags \cap not_tags.tags # {}
    THEN [raised |-> "ValueError", frame |-> <<>>]
    ELSE [raised |-> "none", frame |-> BooleanMask(df, and_tags, not_tags, or_tags)]

\* PostsSearchQueryManager.filter
filter(df, and_tags, not_tags, or_tags) ==
    IF df = Unset
    THEN [raised |-> "AttributeError", frame |-> <<>>]
    ELSE [raised |-> "none", frame |-> BooleanMask(df, and_tags, not_tags, or_tags)]

Filter ==
    /\ pc = "ready"
    /\ \E and_tags \in OptionalSets, not_tags \in OptionalSets, or_tags \in OptionalSets :
        /\ LET r == filter(e6_df, and_tags, not_tags, or_tags)
           IN  ret' = [NoRet EXCEPT !.op = "filter", !.and_tags = and_tags,
                                    !.not_tags = not_tags, !.or_tags = or_tags,
                                    !.raised = r.raised, !.frame = r.frame]
        /\ pc' = "returned"
        /\ UNCHANGED <<e6_df, posts_df, disk, net, local, export>>

\* mutant: the evaluation stores its result in the frame, as load does at line 175
FilterAgain_inplace ==
    /\ pc = "returned"
    /\ ret.op = "filter"
    /\ local.calls < MaxRepeats
    /\ LET r == filter(e6_df, ret.and_tags, ret.not_tags, ret.or_tags)
       IN  /\ ret' = [ret EXCEPT !.raised = r.raised, !.frame = r.frame]
           /\ e6_df' = IF r.raised = "none" THEN r.frame ELSE e6_df
    /\ local' = [local EXCEPT !.calls = @ + 1]
    /\ UNCHANGED <<posts_df, pc, disk, net, export>>

\* PostsSearchQueryManager.filter called once more with the same three sets
FilterAgain ==
    /\ pc = "returned"
    /\ ret.op = "filter"
    /\ local.calls < MaxRepeats
    /\ LET r == filter(e6_df, ret.and_tags, ret.not_tags, ret.or_tags)
       IN  ret' = [ret EXCEPT !.raised = r.raised, !.frame = r.frame]
    /\ local' = [local EXCEPT !.calls = @ + 1]
    /\ UNCHANGED <<e6_df, posts_df, pc, disk, net, export>>

(***************************************************************************)
(* e6search.py / e6db.py: SearchQuery.  build_query_function is declared   *)
(* without self, and filter_posts_by_tags calls it as a bound method.  The *)
(* two files hold the same class; the frame a SearchQuery is built with is *)
(* the frame e6_df.                                                        *)
(***************************************************************************)
SearchQuery_build_query_function_params == 3

\* self.build_query_function(and_tags, not_tags, or_tags): the instance is
\* passed first, so the call carries 1 + 3 positional arguments
filter_posts_by_tags(df, and_tags, not_tags, or_tags) ==
    IF 1 + 3 > SearchQuery_build_query_function_params
    THEN [raised |-> "TypeError", frame |-> <<>>]
    ELSE [raised |-> "none", frame |-> BooleanMask(df, and_tags, not_tags, or_tags)]

FilterPostsByTags ==
    /\ pc = "ready"
    /\ e6_df # Unset
    /\ \E and_tags \in OptionalSets, not_tags \in OptionalSets, or_tags \in OptionalSets :
        /\ LET r == filter_posts_by_tags(e6_df, and_tags, not_tags, or_tags)
           IN  ret' = [NoRet EXCEPT !.op = "filter_posts_by_tags", !.and_tags = and_tags,
                                    !.not_tags = not_tags, !.or_tags = or_tags,
                                    !.raised = r.raised, !.frame = r.frame]
        /\ pc' = "returned"
        /\ UNCHANGED <<e6_df, posts_df, disk, net, local, export>>

(***************************************************************************)
(* e6query.py: PostsSearchQueryManager.build_search_query                  *)
(***************************************************************************)
PyNone == [kind |-> "None"]

\* typing.List(): "Type List cannot be instantiated; use list() instead"
typing_List == [raised |-> "TypeError", value |-> <<>>]

\* re.findall(r'^([~-+]*)...$', token): the pattern does not compile, the
\* class [~-+] is a range from '~' (0x7E) down to '+' (0x2B)
re_findall(token) == [raised |-> "re.error", value |-> <<>>]

\* a str is never None
IsNone(s) == FALSE

FieldNames ==
    { <<"s", "c", "o", "r", "e">>,
      <<"d", "o", "w", "n", "_", "s", "c", "o", "r", "e">>,
      <<"i", "m", "a", "g", "e", "_", "w", "i", "d", "t", "h">>,
      <<"i", "m", "a", "g", "e", "_", "h", "e", "i", "g", "h", "t">> }

OrderName == <<"o", "r", "d", "e", "r">>

\* query_string.split(' '): one piece per single space, empty pieces kept
RECURSIVE split(_, _)
split(s, piece) ==
    IF s = <<>> THEN <<piece>>
    ELSE IF Head(s) = " " THEN <<piece>> \o split(Tail(s), <<>>)
    ELSE split(Tail(s), Append(piece, Head(s)))

\* lines 97-110, the body of the loop after the groups are bound
classify(st, shebang, spec, colon, oper, arg) ==
    IF IsNone(colon)
    THEN IF shebang = <<"+">> THEN [st EXCEPT !.and_tags = @ \cup {spec}]
         ELSE IF shebang = <<"-">> THEN [st EXCEPT !.not_tags = @ \cup {spec}]
         ELSE IF shebang = <<"~">> THEN [st EXCEPT !.or_tags = @ \cup {spec}]
         ELSE [st EXCEPT !.and_tags = @ \cup {spec}]
    ELSE IF spec \in FieldNames
         THEN [st EXCEPT !.query_str = Append(@, spec \o <<" ">> \o oper \o <<" ">> \o arg)]
         ELSE IF spec = OrderName
              THEN [st EXCEPT !.order_str = Append(@, arg)]
              ELSE st

\* line 96: the match list is unpacked into five names
token_step(st, token) ==
    LET found == re_findall(token)
    IN  IF found.raised # "none" THEN [st EXCEPT !.raised = found.raised]
        ELSE IF Len(found.value) # 5 THEN [st EXCEPT !.raised = "ValueError"]
        ELSE classify(st, found.value[1], found.value[2], found.value[3],
                      found.value[4], found.value[5])

RECURSIVE token_loop(_, _)
token_loop(st, tokens) ==
    IF tokens = <<>> \/ st.raised # "none" THEN st
    ELSE token_loop(token_step(st, Head(tokens)), Tail(tokens))

\* the function has no return statement: a call that completes returns None
build_search_query(query_string) ==
    LET query_str == typing_List
        order_str == typing_List
    IN  IF query_str.raised # "none" THEN [raised |-> query_str.raised, value |-> PyNone]
        ELSE IF order_str.raised # "none" THEN [raised |-> order_str.raised, value |-> PyNone]
        ELSE LET st0 == [raised |-> "none", not_tags |-> {}, or_tags |-> {}, and_tags |-> {},
                         query_str |-> query_str.value, order_str |-> order_str.value]
                 st == token_loop(st0, split(query_string, <<>>))
             IN  [raised |-> st.raised, value |-> PyNone]

Alphabet == {"+", "-", "~", ":", " ", "a", "A"}

ExampleQuery ==
    <<"+", "w", "o", "l", "f", " ", "-", "f", "o", "x", " ", "~", "b", "e", "a", "r", " ",
      "s", "c", "o", "r", "e", ":", ">", "=", "1", "0", " ",
      "o", "r", "d", "e", "r", ":", "s", "c", "o", "r", "e">>

\* "order:a order:score"
TwoOrdersQuery ==
    <<"o", "r", "d", "e", "r", ":", "a", " ",
      "o", "r", "d", "e", "r", ":", "s", "c", "o", "r", "e">>

NamedQueries ==
    { ExampleQuery,
      <<":", ":", ":">>,
      <<"+", "a", " ", "-", "a">>,
      <<"a", " ", " ", "a">>,
      <<"+", "W", "o", "l", "f", " ", "-", "F", "O", "X">>,
      TwoOrdersQuery }

QueryStrings == SeqsUpTo(Alphabet, MaxQueryLen) \cup NamedQueries

BuildSearchQuery ==
    /\ pc = "ready"
    /\ \E query_string \in QueryStrings :
        /\ LET r == build_search_query(query_string)
           IN  ret' = [NoRet EXCEPT !.op = "build_search_query",
                                    !.query_string = query_string,
                                    !.raised = r.raised, !.value = r.value]
        /\ pc' = "returned"
        /\ UNCHANGED <<e6_df, posts_df, disk, net, local, export>>

(***************************************************************************)
(* cli.py: the sorting steps of main.  posts_df is the frame main holds    *)
(* when it reaches line 204: rows of the export in the export's order.     *)
(* cli.py imports download_e6_csvs, filter_posts_by_tags and get_file_url  *)
(* from e6db, which defines none of them at module level; the steps of     *)
(* main modelled here call pandas alone.                                   *)
(***************************************************************************)
IndexPermutations(n) == {f \in [1..n -> 1..n] : \A i, j \in 1..n : i # j => f[i] # f[j]}

\* DataFrame.sort_values(by, ascending=...) with the default kind='quicksort':
\* pandas promises the order of the keys and nothing about rows of equal key
sort_values(df, by, ascending) ==
    { [i \in 1..Len(df) |-> df[f[i]]] : f \in
        {g \in IndexPermutations(Len(df)) :
            \A i, j \in 1..Len(df) :
                i < j => IF ascending THEN df[g[i]][by] <= df[g[j]][by]
                                      ELSE df[g[i]][by] >= df[g[j]][by]} }

\* posts_df.query("rating == 'e'")
query_rating_e(df) == SelectSeq(df, LAMBDA row : row.rating = "e")

\* lines 204-206: posts_df.sort_values("fav_count", ascending=False, inplace=True)
MainSortFavCount ==
    /\ pc = "main_204"
    /\ \E sorted \in sort_values(posts_df, "fav_count", FALSE) : posts_df' = sorted
    /\ pc' = "main_236"
    /\ UNCHANGED <<e6_df, ret, disk, net, local, export>>

\* lines 236-238: rating_e_order_score = posts_df.query(...).sort_values("score", ...)
MainRatingOrderScore ==
    /\ pc = "main_236"
    /\ \E sorted \in sort_values(query_rating_e(posts_df), "score", FALSE) :
          ret' = [NoRet EXCEPT !.op = "rating_e_order_score", !.frame = sorted]
    /\ pc' = "main_241"
    /\ UNCHANGED <<e6_df, posts_df, disk, net, local, export>>

(***************************************************************************)
(* e6query.py: PostsSearchQueryManager.load.  The export file holds rows   *)
(* with the columns load reads.  A cell of a numeric column of the file is *)
(* a number, an empty field (read_csv gives NaN) or a text that is no      *)
(* number (read_csv then keeps the whole column as text).  The tag_string  *)
(* column holds the set its converter builds.                              *)
(***************************************************************************)
MinImageSize == 512

AllowedFileExts == {"jpg", "jpeg", "png", "jiff"}

BlockedTags == {"young", "cub", "loli", "shota", "gore", "scat"}

IntCell(n) == [kind |-> "int", n |-> n]

NaNCell == [kind |-> "nan", n |-> 0]

StrCell == [kind |-> "str", n |-> 0]

GoodRow ==
    [file_ext |-> "jpg", image_width |-> IntCell(MinImageSize),
     image_height |-> IntCell(MinImageSize + 1), is_deleted |-> "f", is_pending |-> "f",
     is_flagged |-> "f", tag_string |-> {"wolf"}, file_size |-> 1]

\* rows of an export: the good row, and the rows that differ from it in one column
ExportRows ==
    {GoodRow}
    \cup {[GoodRow EXCEPT !.file_ext = x] : x \in {"jpeg", "png", "jiff", "gif"}}
    \cup {[GoodRow EXCEPT !.image_width = c] : c \in {IntCell(MinImageSize - 1), NaNCell, StrCell}}
    \cup {[GoodRow EXCEPT !.image_height = c] : c \in {IntCell(MinImageSize - 1), IntCell(MinImageSize)}}
    \cup {[GoodRow EXCEPT !.is_deleted = "t"], [GoodRow EXCEPT !.is_pending = "t"],
          [GoodRow EXCEPT !.is_flagged = "t"]}
    \cup {[GoodRow EXCEPT !.tag_string = t] : t \in {{}, {"cub"}, {"wolf", "gore"}, {"fox"}}}

ExportFiles ==
    {NoFile} \cup {[exists |-> TRUE, rows |-> c] : c \in SeqsUpTo(ExportRows, MaxRows)}

\* a frame load has built before: index labels and the columns tags and file_size
LoadedFrames ==
    { <<>>,
      <<[idx |-> 0, file_ext |-> "png", image_width |-> IntCell(MinImageSize),
         image_height |-> IntCell(MinImageSize), is_deleted |-> "f", is_pending |-> "f",
         is_flagged |-> "f", tags |-> {"bear"}, file_size |-> 1]>> }

HasColumn(df, column) == df = <<>> \/ column \in DOMAIN df[1]

\* pd.read_csv(local_path(), ..., converters={"tag_string": ...})
read_csv(file) ==
    IF ~file.exists THEN [raised |-> "FileNotFoundError", frame |-> <<>>]
    ELSE [raised |-> "none", frame |-> WithIndex(file.rows)]

\* rename(columns={"tag_string": "tags"}, inplace=True)
rename_tags(df) ==
    [i \in DOMAIN df |->
        [c \in (DOMAIN df[i] \ {"tag_string"}) \cup {"tags"} |->
            IF c = "tags" THEN df[i].tag_string ELSE df[i][c]]]

\* a column read from the file is numeric unless one of its cells is text
IsTextColumn(df, column) == \E i \in DOMAIN df : df[i][column].kind = "str"

\* cell >= n on a numeric column: a comparison with NaN is False
CellAtLeast(cell, n) == cell.kind = "int" /\ cell.n >= n

\* mutant: image_height > 512
query_clean_row_strict(row) ==
    /\ row.file_ext \in AllowedFileExts
    /\ CellAtLeast(row.image_width, MinImageSize)
    /\ CellAtLeast(row.image_height, MinImageSize + 1)
    /\ row.is_deleted = "f"
    /\ row.is_pending = "f"
    /\ row.is_flagged = "f"

\* lines 166-172, the condition of the query on one row
query_clean_row(row) ==
    /\ row.file_ext \in AllowedFileExts
    /\ CellAtLeast(row.image_width, MinImageSize)
    /\ CellAtLeast(row.image_height, MinImageSize)
    /\ row.is_deleted = "f"
    /\ row.is_pending = "f"
    /\ row.is_flagged = "f"

\* lines 166-174: e6_df.query(..., inplace=True); comparing a text column
\* with a number raises TypeError
query_clean(df) ==
    IF IsTextColumn(df, "image_width") \/ IsTextColumn(df, "image_height")
    THEN [raised |-> "TypeError", frame |-> df]
    ELSE [raised |-> "none", frame |-> SelectSeq(df, query_clean_row)]

\* load: the exception it ends with and the frame it leaves in e6_df
load(old, file) ==
    IF old = Unset THEN [raised |-> "AttributeError", frame |-> old]
    ELSE IF ~HasColumn(old, "file_size") THEN [raised |-> "KeyError", frame |-> old]
    ELSE LET csv == read_csv(file)
         IN  IF csv.raised # "none" THEN [raised |-> csv.raised, frame |-> old]
             ELSE LET cleaned == query_clean(rename_tags(csv.frame))
                  IN  IF cleaned.raised # "none" THEN cleaned
                      ELSE filter(cleaned.frame, NoneArg, SomeSet(BlockedTags), NoneArg)

Load ==
    /\ pc = "ready"
    /\ LET r == load(e6_df, disk)
       IN  /\ e6_df' = r.frame
           /\ ret' = [NoRet EXCEPT !.op = "load", !.raised = r.raised]
    /\ pc' = "returned"
    /\ UNCHANGED <<posts_df, disk, net, local, export>>

InitLoad ==
    /\ e6_df \in LoadedFrames \cup {Unset, <<[idx |-> 0, tags |-> {"wolf"}]>>}
    /\ posts_df = <<>>
    /\ pc = "ready"
    /\ ret = NoRet
    /\ disk \in ExportFiles
    /\ net = NoNet
    /\ local = NoLocal
    /\ export = DefaultExport

NextLoad == Load

SpecLoad == InitLoad /\ [][NextLoad]_vars

(***************************************************************************)
(* e6db.py: DBExport and DBExportManager.  disk is the file at the         *)
(* local_path() of the export that is synced; net holds what the server    *)
(* answers and the requests sent.                                          *)
(***************************************************************************)
MAX_DB_EXPORT_AGE_DAYS == 3

DBExportTarget == {"POOLS", "POSTS", "TAG_ALIASES", "TAG_IMPLICATIONS", "TAGS", "WIKI_PAGES"}

\* def server_filename(self): the positional parameters besides self
server_filename_params == 0

OldFile == [exists |-> TRUE, rows |-> <<[GoodRow EXCEPT !.file_ext = "png"]>>]

\* what the server holds for the export
ServerFile == [exists |-> TRUE, rows |-> <<GoodRow>>]

server_filename(ex) ==
    IF ex.days_ago \notin 0..MAX_DB_EXPORT_AGE_DAYS
    THEN [raised |-> "ValueError", value |-> <<>>]
    ELSE [raised |-> "none", value |-> <<ex.export_target, ex.days_ago>>]

\* line 82: self.server_filename(self.export_target, self.days_ago) passes
\* two positional arguments besides self
server_url(ex) ==
    IF 2 > server_filename_params
    THEN [raised |-> "TypeError", value |-> <<>>]
    ELSE server_filename(ex)

\* size_bytes: the HEAD request, after server_url
size_bytes(ex, network) ==
    LET url == server_url(ex)
    IN  IF url.raised # "none" THEN [raised |-> url.raised, requests |-> network.requests]
        ELSE LET sent == Append(network.requests, "HEAD")
             IN  IF network.status # 200 THEN [raised |-> "RuntimeError", requests |-> sent]
                 ELSE IF ~network.has_length THEN [raised |-> "RuntimeError", requests |-> sent]
                 ELSE [raised |-> "none", requests |-> sent]

\* DBExport.sync: the exception it ends with, the file and the requests it leaves
sync(ex, file, network) ==
    LET removed == IF ex.refresh /\ file.exists THEN NoFile ELSE file
    IN  IF ~ex.refresh /\ removed.exists
        THEN [raised |-> "none", file |-> removed, requests |-> network.requests]
        ELSE LET size == size_bytes(ex, network)
             IN  IF size.raised # "none"
                 THEN [raised |-> size.raised, file |-> removed, requests |-> size.requests]
                 ELSE LET url == server_url(ex)
                          sent == Append(size.requests, "GET")
                      IN  IF url.raised # "none"
                          THEN [raised |-> url.raised, file |-> removed, requests |-> size.requests]
                          ELSE IF network.status # 200
                          THEN [raised |-> "RuntimeError", file |-> removed, requests |-> sent]
                          ELSE [raised |-> "none", file |-> ServerFile, requests |-> sent]

Sync ==
    /\ pc = "ready"
    /\ LET r == sync(export, disk, net)
       IN  /\ disk' = r.file
           /\ net' = [net EXCEPT !.requests = r.requests]
           /\ ret' = [before |-> disk] @@ [NoRet EXCEPT !.op = "sync", !.raised = r.raised]
    /\ pc' = "returned"
    /\ UNCHANGED <<e6_df, posts_df, local, export>>

\* a list is never None
ListIsNone(l) == FALSE

\* DBExportManager.__init__: self.db_exports = List()
DBExportManager_init(export_targets, days_ago, refresh) ==
    LET db_exports == typing_List
    IN  IF db_exports.raised # "none" THEN [raised |-> db_exports.raised, db_exports |-> <<>>]
        ELSE [raised |-> "none",
              db_exports |-> [i \in DOMAIN export_targets |->
                                 [export_target |-> export_targets[i], days_ago |-> days_ago,
                                  refresh |-> refresh]]]

\* DBExportManager.sync
manager_sync(db_exports, export_target, file, network) ==
    LET res == SelectSeq(db_exports, LAMBDA ec : ec.export_target = export_target)
    IN  IF ~ListIsNone(res)
        THEN IF res = <<>>
             THEN [raised |-> "IndexError", file |-> file, requests |-> network.requests,
                   synced |-> <<>>]
             ELSE [synced |-> <<res[1].export_target>>] @@ sync(res[1], file, network)
        ELSE [raised |-> "RuntimeError", file |-> file, requests |-> network.requests,
              synced |-> <<>>]

TargetLists ==
    SeqsUpTo(DBExportTarget, MaxTargets) \cup {<<"POSTS", "TAGS", "TAG_IMPLICATIONS">>}

\* DBExportManager(refresh=..., export_targets=..., days_ago=...).sync(export_target)
ManagerSync ==
    /\ pc = "ready"
    /\ \E export_targets \in TargetLists, export_target \in DBExportTarget :
          LET made == DBExportManager_init(export_targets, export.days_ago, export.refresh)
              r == IF made.raised # "none"
                   THEN [raised |-> made.raised, file |-> disk, requests |-> net.requests,
                         synced |-> <<>>]
                   ELSE manager_sync(made.db_exports, export_target, disk, net)
          IN  /\ disk' = r.file
              /\ net' = [net EXCEPT !.requests = r.requests]
              /\ ret' = [before |-> disk, export_targets |-> export_targets,
                         export_target |-> export_target, synced |-> r.synced]
                        @@ [NoRet EXCEPT !.op = "manager_sync", !.raised = r.raised]
    /\ pc' = "returned"
    /\ UNCHANGED <<e6_df, posts_df, local, export>>

InitSync ==
    /\ e6_df = Unset
    /\ posts_df = <<>>
    /\ pc = "ready"
    /\ ret = NoRet
    /\ disk \in {NoFile, OldFile}
    /\ net \in [status : {200, 404}, has_length : BOOLEAN, requests : {<<>>}]
    /\ local = NoLocal
    /\ export \in [export_target : DBExportTarget,
                   days_ago : (-1)..(MAX_DB_EXPORT_AGE_DAYS + 1), refresh : BOOLEAN]

NextSync == Sync \/ ManagerSync

SpecSync == InitSync /\ [][NextSync]_vars

(***************************************************************************)
(* e6query.py: filter and load called on one manager by two threads of a   *)
(* host.  Neither method takes a lock.  A frame is an object: load binds   *)
(* the attribute e6_df to a new frame at line 152, changes that frame in   *)
(* place at lines 159 and 166, and binds the attribute to the result of    *)
(* filter at line 175; filter reads the attribute at line 137 and again at *)
(* line 138.  local.heap holds the three frames ("old", "fresh", "result") *)
(* and local.attr the one the attribute is bound to; e6_df is its content. *)
(***************************************************************************)
CleanExportRows ==
    {GoodRow, [GoodRow EXCEPT !.tag_string = {}], [GoodRow EXCEPT !.tag_string = {"fox"}]}

\* frames an earlier load has left in e6_df
SnapshotFrames ==
    {rename_tags(WithIndex(c)) : c \in SeqsUpTo(CleanExportRows, MaxRows)}

ConcQueries == {NoneArg, SomeSet({"wolf"})}

\* df[mask] with a boolean Series: the mask is aligned with the frame's index,
\* and a label of the frame the mask lacks makes the indexing fail; an empty
\* mask is no boolean key, and what the frame then returns is not decided here
index_by_mask(df, mask) ==
    LET labelled == {mask[k].idx : k \in DOMAIN mask}
        keep == {mask[k].idx : k \in {j \in DOMAIN mask : mask[j].keep}}
        selected == [raised |-> "none", frame |-> SelectSeq(df, LAMBDA row : row.idx \in keep)]
        failed == [raised |-> "IndexingError", frame |-> <<>>]
    IN  IF \A i \in DOMAIN df : df[i].idx \in labelled THEN {selected}
        ELSE IF mask = <<>> THEN {failed, [raised |-> "none", frame |-> df]}
        ELSE {failed}

\* line 137: the frame to index is read from the attribute
FilterRead ==
    /\ local.fpc = "f_137"
    /\ \E and_tags \in ConcQueries :
          ret' = [NoRet EXCEPT !.op = "filter", !.and_tags = and_tags, !.raised = "pending"]
    /\ local' = [local EXCEPT !.fpc = "f_138", !.outer = local.attr, !.snapshot = e6_df]
    /\ UNCHANGED <<e6_df, posts_df, pc, disk, net, export>>

\* line 138: the attribute is read again, and its tags column is mapped
FilterMap ==
    /\ local.fpc = "f_138"
    /\ IF HasColumn(e6_df, "tags")
       THEN /\ local' = [local EXCEPT !.fpc = "f_index",
                            !.mask = [i \in DOMAIN e6_df |->
                                         [idx |-> e6_df[i].idx,
                                          keep |-> query_function(ret.and_tags, ret.not_tags,
                                                                  ret.or_tags, e6_df[i].tags)]]]
            /\ ret' = ret
       ELSE /\ local' = [local EXCEPT !.fpc = "done"]
            /\ ret' = [ret EXCEPT !.raised = "KeyError"]
    /\ UNCHANGED <<e6_df, posts_df, pc, disk, net, export>>

\* lines 137-141: the frame read first is indexed by the mask
FilterIndex ==
    /\ local.fpc = "f_index"
    /\ \E r \in index_by_mask(local.heap[local.outer], local.mask) :
          ret' = [ret EXCEPT !.raised = r.raised, !.frame = r.frame]
    /\ local' = [local EXCEPT !.fpc = "done"]
    /\ UNCHANGED <<e6_df, posts_df, pc, disk, net, export>>

\* lines 150-151: len(e6_df) and e6_df["file_size"].sum()
LoadMeasure ==
    /\ local.lpc = "l_150"
    /\ local' = [local EXCEPT !.lpc = IF HasColumn(e6_df, "file_size") THEN "l_152" ELSE "failed"]
    /\ UNCHANGED <<e6_df, posts_df, pc, ret, disk, net, export>>

\* lines 152-158: e6_df = pd.read_csv(...)
LoadRead ==
    /\ local.lpc = "l_152"
    /\ LET csv == read_csv(disk)
       IN  IF csv.raised # "none"
           THEN /\ local' = [local EXCEPT !.lpc = "failed"]
                /\ e6_df' = e6_df
           ELSE /\ local' = [local EXCEPT !.lpc = "l_159", !.attr = "fresh",
                                          !.heap = [@ EXCEPT !.fresh = csv.frame]]
                /\ e6_df' = csv.frame
    /\ UNCHANGED <<posts_df, pc, ret, disk, net, export>>

\* line 159: rename(..., inplace=True)
LoadRename ==
    /\ local.lpc = "l_159"
    /\ local' = [local EXCEPT !.lpc = "l_166", !.heap = [@ EXCEPT !.fresh = rename_tags(@)]]
    /\ e6_df' = rename_tags(e6_df)
    /\ UNCHANGED <<posts_df, pc, ret, disk, net, export>>

\* lines 166-174: query(..., inplace=True)
LoadQuery ==
    /\ local.lpc = "l_166"
    /\ LET cleaned == query_clean(e6_df)
       IN  /\ local' = [local EXCEPT !.lpc = IF cleaned.raised = "none" THEN "l_175" ELSE "failed",
                                     !.heap = [@ EXCEPT !.fresh = cleaned.frame]]
           /\ e6_df' = cleaned.frame
    /\ UNCHANGED <<posts_df, pc, ret, disk, net, export>>

\* line 175: e6_df = self.filter(None, {...})
LoadFilter ==
    /\ local.lpc = "l_175"
    /\ LET r == filter(e6_df, NoneArg, SomeSet(BlockedTags), NoneArg)
       IN  /\ local' = [local EXCEPT !.lpc = "done", !.attr = "result",
                                     !.heap = [@ EXCEPT !.result = r.frame]]
           /\ e6_df' = r.frame
    /\ UNCHANGED <<posts_df, pc, ret, disk, net, export>>

InitConc ==
    /\ e6_df \in SnapshotFrames
    /\ posts_df = <<>>
    /\ pc = "threads"
    /\ ret = NoRet
    /\ disk \in ExportFiles
    /\ net = NoNet
    /\ local = [calls |-> 0, fpc |-> "f_137", lpc |-> "l_150", attr |-> "old", outer |-> "old",
                mask |-> <<>>, snapshot |-> <<>>,
                heap |-> [old |-> e6_df, fresh |-> <<>>, result |-> <<>>]]
    /\ export = DefaultExport

NextConc ==
    \/ FilterRead \/ FilterMap \/ FilterIndex
    \/ LoadMeasure \/ LoadRead \/ LoadRename \/ LoadQuery \/ LoadFilter

SpecConc == InitConc /\ [][NextConc]_vars

Init ==
    /\ e6_df \in TagFrames \cup {Unset}
    /\ posts_df = <<>>
    /\ pc = "ready"
    /\ ret = NoRet
    /\ disk = NoFile
    /\ net = NoNet
    /\ local = NoLocal
    /\ export = DefaultExport

Next == Filter \/ FilterAgain \/ FilterPostsByTags \/ BuildSearchQuery

Spec == Init /\ [][Next]_vars

InitCli ==
    /\ e6_df = Unset
    /\ posts_df \in PostFrames
    /\ pc = "main_204"
    /\ ret = NoRet
    /\ disk = NoFile
    /\ net = NoNet
    /\ local = NoLocal
    /\ export = DefaultExport

NextCli == MainSortFavCount \/ MainRatingOrderScore

SpecCli == InitCli /\ [][NextCli]_vars
(***************************************************************************)
(* Properties of the tag filter.                                           *)
(***************************************************************************)
FilterReturned == ret.op = "filter" /\ ret.raised = "none"

RowsOf(df) == {df[i] : i \in DOMAIN df}

Required == ret.and_tags.tags
Excluded == ret.not_tags.tags
Optional == ret.or_tags.tags

RequiredOK(row) == Required \subseteq row.tags
ExcludedOK(row) == Excluded \cap row.tags = {}
OptionalOK(row) == Optional = {} \/ Optional \cap row.tags # {}

\* C1: a record is in the result of filter only if every required tag is one
\* of its tags; with an empty or None required set, every record that meets
\* the excluded and optional conditions is in the result.
C1_RequiredSubset ==
    FilterReturned =>
        /\ RowsOf(ret.frame) \subseteq RowsOf(e6_df)
        /\ \A row \in RowsOf(ret.frame) : RequiredOK(row)
        /\ Required = {} =>
              \A row \in RowsOf(e6_df) :
                  ExcludedOK(row) /\ OptionalOK(row) => row \in RowsOf(ret.frame)

C1_Witness ==
    /\ FilterReturned
    /\ Cardinality(Required) = 2
    /\ \E row \in RowsOf(e6_df) : Required \cap row.tags # {} /\ ~RequiredOK(row)
    /\ ret.frame # <<>>

\* C2 as stated: a record is left out of the result if and only if it has
\* one of the excluded tags.
C2_ExcludedIffStated ==
    FilterReturned =>
        \A row \in RowsOf(e6_df) : row \notin RowsOf(ret.frame) <=> ~ExcludedOK(row)

\* C2 as amended: a record that has one of the excluded tags is left out of
\* the result; a record that meets the required and optional conditions is
\* left out if and only if it has one of the excluded tags, so an empty or
\* None excluded set leaves out no such record.
C2_ExcludedIff ==
    FilterReturned =>
        \A row \in RowsOf(e6_df) :
            /\ ~ExcludedOK(row) => row \notin RowsOf(ret.frame)
            /\ RequiredOK(row) /\ OptionalOK(row) =>
                  (row \notin RowsOf(ret.frame) <=> ~ExcludedOK(row))

C2_Witness ==
    /\ FilterReturned
    /\ Cardinality(Excluded) = 2
    /\ \E row \in RowsOf(e6_df) :
          /\ RequiredOK(row) /\ OptionalOK(row)
          /\ Cardinality(Excluded \cap row.tags) = 1
          /\ row \notin RowsOf(ret.frame)
    /\ ret.frame # <<>>

\* C3: with an empty or None optional set every record that meets the
\* required and excluded conditions is in the result; with a non-empty
\* optional set every record in the result has one of the optional tags.
C3_OptionalSet ==
    FilterReturned =>
        /\ Optional = {} =>
              \A row \in RowsOf(e6_df) :
                  RequiredOK(row) /\ ExcludedOK(row) => row \in RowsOf(ret.frame)
        /\ Optional # {} =>
              \A row \in RowsOf(ret.frame) : Optional \cap row.tags # {}

C3_Witness ==
    /\ FilterReturned
    /\ Optional # {}
    /\ \E row \in RowsOf(e6_df) :
          RequiredOK(row) /\ ExcludedOK(row) /\ row \notin RowsOf(ret.frame)
    /\ ret.frame # <<>>

\* C4: filter called with a tag in both the required and the excluded set
\* raises nothing and returns no record, whatever the frame and the optional
\* set are.
C4_OverlapYieldsNothing ==
    ret.op = "filter" /\ e6_df # Unset /\ Required \cap Excluded # {} =>
        ret.raised = "none" /\ ret.frame = <<>>

C4_Witness ==
    /\ ret.op = "filter" /\ ret.raised = "none"
    /\ Required \cap Excluded # {}
    /\ Optional # {}
    /\ \E row \in RowsOf(e6_df) : RequiredOK(row) /\ OptionalOK(row)

\* C5: the result of filter is a subsequence of the frame: it holds exactly
\* the records that meet the three conditions, each once, in the order of
\* the frame.
C5_Subsequence ==
    FilterReturned =>
        /\ RowsOf(ret.frame) =
              {row \in RowsOf(e6_df) : RequiredOK(row) /\ ExcludedOK(row) /\ OptionalOK(row)}
        /\ \A i, j \in DOMAIN ret.frame :
              i < j =>
                  \E m, n \in DOMAIN e6_df :
                      m < n /\ e6_df[m] = ret.frame[i] /\ e6_df[n] = ret.frame[j]

C5_Witness ==
    /\ FilterReturned
    /\ Len(ret.frame) >= 2
    /\ Len(ret.frame) < Len(e6_df) \/ Len(e6_df) = MaxRows
    /\ ret.frame[1].tags # ret.frame[2].tags
(***************************************************************************)
(* Properties of the sorting steps of main.                                *)
(***************************************************************************)
PositionIn(df, row) == CHOOSE i \in DOMAIN df : df[i] = row

\* C6: sorting is stable: after posts_df is sorted by fav_count, two rows of
\* equal fav_count are in the order of the export (their index labels); in
\* rating_e_order_score, two rows of equal score are in the order they have
\* in posts_df.
C6_StableSort ==
    /\ pc = "main_236" =>
          \A i, j \in DOMAIN posts_df :
              i < j /\ posts_df[i].fav_count = posts_df[j].fav_count =>
                  posts_df[i].idx < posts_df[j].idx
    /\ pc = "main_241" =>
          \A i, j \in DOMAIN ret.frame :
              i < j /\ ret.frame[i].score = ret.frame[j].score =>
                  PositionIn(posts_df, ret.frame[i]) < PositionIn(posts_df, ret.frame[j])

(***************************************************************************)
(* Properties of the parser.  The expected reading of a token follows the  *)
(* grammar: an optional prefix + - ~ and a name.                           *)
(***************************************************************************)
ParseCall == ret.op = "build_search_query"

Tokens == split(ret.query_string, <<>>)

TokenSet == {Tokens[i] : i \in DOMAIN Tokens}

LowerCase == {"a", "b", "e", "f", "l", "o", "r", "w", "x"}

UpperCase == {"A", "F", "O", "W", "X"}

Lower(c) ==
    CASE c = "A" -> "a" [] c = "F" -> "f" [] c = "O" -> "o" [] c = "W" -> "w"
      [] c = "X" -> "x" [] OTHER -> c

LowerStr(name) == [i \in DOMAIN name |-> Lower(name[i])]

HasPrefix(t) == t # <<>> /\ Head(t) \in {"+", "-", "~"}

PrefixOf(t) == IF HasPrefix(t) THEN Head(t) ELSE "+"

NameOf(t) == IF HasPrefix(t) THEN Tail(t) ELSE t

IsName(n) == n # <<>> /\ \A i \in DOMAIN n : n[i] \in LowerCase \cup UpperCase

IsTagToken(t) == IsName(NameOf(t))

IsLowerTagToken(t) == IsTagToken(t) /\ \A i \in DOMAIN NameOf(t) : NameOf(t)[i] \in LowerCase

NamesWith(prefix) == {NameOf(t) : t \in {u \in TokenSet : PrefixOf(u) = prefix}}

ExpectedTagQuery ==
    [kind |-> "Query",
     required |-> {LowerStr(n) : n \in NamesWith("+")},
     excluded |-> {LowerStr(n) : n \in NamesWith("-")},
     optional |-> {LowerStr(n) : n \in NamesWith("~")},
     predicates |-> <<>>,
     order |-> <<>>]

ExampleParsed ==
    [kind |-> "Query",
     required |-> {<<"w", "o", "l", "f">>},
     excluded |-> {<<"f", "o", "x">>},
     optional |-> {<<"b", "e", "a", "r">>},
     predicates |-> << <<<<"s", "c", "o", "r", "e">>, <<">", "=">>, 10>> >>,
     order |-> <<"s", "c", "o", "r", "e">>]

ParseErrors == {"EmptyTag", "UnknownField", "InvalidComparator", "InvalidNumericValue"}

\* C7: build_search_query classifies the tokens left to right by their
\* prefix: the example string yields required {wolf}, excluded {fox},
\* optional {bear}, the predicate (score, >=, 10) and the order score, and a
\* string of tag tokens yields the three sets its prefixes name.
C7_ParseClassifies ==
    /\ ParseCall /\ ret.query_string = ExampleQuery =>
          ret.raised = "none" /\ ret.value = ExampleParsed
    /\ ParseCall /\ (\A t \in TokenSet : IsLowerTagToken(t)) =>
          ret.raised = "none" /\ ret.value = ExpectedTagQuery

\* C8: the tag sets of a parsed query hold the lowercased names of the tag
\* tokens, and no name with an uppercase character.
C8_TagsLowercased ==
    ParseCall /\ (\A t \in TokenSet : IsTagToken(t))
              /\ (\E t \in TokenSet : \E i \in DOMAIN t : t[i] \in UpperCase) =>
        /\ ret.raised = "none"
        /\ ret.value = ExpectedTagQuery
        /\ \A n \in ret.value.required \cup ret.value.excluded \cup ret.value.optional :
              \A i \in DOMAIN n : n[i] \notin UpperCase

\* C9: a token whose name is empty after its prefix makes the parse fail
\* with EmptyTag, and no query is returned.
C9_EmptyTagRejected ==
    ParseCall /\ (\E t \in TokenSet : NameOf(t) = <<>>)
              /\ (\A t \in TokenSet : NameOf(t) = <<>> \/ IsTagToken(t)) =>
        ret.raised = "EmptyTag" /\ ret.value = PyNone

FieldOf(t) == SubSeq(t, 1, (CHOOSE i \in DOMAIN t : t[i] = ":" /\ \A k \in 1..(i - 1) : t[k] # ":") - 1)

IsFieldToken(t) == \E i \in DOMAIN t : t[i] = ":"

\* C10: a field token whose field is not a known one (":::" among them)
\* makes the parse fail with a parse error, and no query is returned.
C10_UnknownFieldRejected ==
    ParseCall /\ (\E t \in TokenSet : IsFieldToken(t) /\ FieldOf(t) \notin FieldNames \cup {OrderName})
              /\ (\A t \in TokenSet : IsFieldToken(t) \/ IsTagToken(t)) =>
        ret.raised \in ParseErrors /\ ret.value = PyNone
IsOrderToken(t) == Len(t) > 6 /\ SubSeq(t, 1, 6) = OrderName \o <<":">>

OrderArg(t) == SubSeq(t, 7, Len(t))

LastOrderToken ==
    Tokens[CHOOSE i \in DOMAIN Tokens :
              IsOrderToken(Tokens[i]) /\ \A k \in DOMAIN Tokens : k > i => ~IsOrderToken(Tokens[k])]

\* C11: a string with several order tokens parses to a query with one order
\* directive, the one of the last order token.
C11_LastOrderWins ==
    ParseCall /\ (\A t \in TokenSet : IsOrderToken(t)) /\ Len(Tokens) >= 2 =>
        /\ ret.raised = "none"
        /\ ret.value.kind = "Query"
        /\ ret.value.order = OrderArg(LastOrderToken)
(***************************************************************************)
(* Properties of load.                                                     *)
(***************************************************************************)
LoadCalled == ret.op = "load"

LoadReady == LoadCalled /\ disk.exists

Export == rename_tags(WithIndex(disk.rows))

IsNumber(cell) == cell.kind = "int"

Clean(row) ==
    /\ row.file_ext \in {"jpg", "jpeg", "png", "jiff"}
    /\ IsNumber(row.image_width) /\ row.image_width.n >= 512
    /\ IsNumber(row.image_height) /\ row.image_height.n >= 512
    /\ row.is_deleted = "f" /\ row.is_pending = "f" /\ row.is_flagged = "f"
    /\ row.tags \cap {"young", "cub", "loli", "shota", "gore", "scat"} = {}

\* C12: when the export has a row whose image_width is missing or is no
\* number, load drops that row alone: it completes, and every other row that
\* meets all the conditions is in the store.
C12_BadFieldDropsOneRow ==
    LoadCalled /\ disk.exists /\ ret.raised \notin {"AttributeError", "KeyError"}
               /\ (\E row \in RowsOf(Export) : ~IsNumber(row.image_width)) =>
        /\ ret.raised = "none"
        /\ RowsOf(e6_df) = {row \in RowsOf(Export) : Clean(row)}

\* C17: after load completes, every row of the store meets the conditions on
\* file_ext, image_width, image_height, is_deleted, is_pending, is_flagged
\* and the blocked tags, and every row of the export that meets them all is
\* in the store, in the order of the export.
C17_LoadKeepsCleanRows ==
    LoadCalled /\ ret.raised = "none" =>
        e6_df = SelectSeq(Export, Clean)

C17_Witness ==
    /\ LoadCalled /\ ret.raised = "none"
    /\ Len(e6_df) = 1
    /\ Len(Export) = 2
    /\ e6_df[1].idx = 1
(***************************************************************************)
(* Frame of the tag filter.                                                *)
(***************************************************************************)
\* C14: an evaluation of filter changes neither the frame nor the three tag
\* sets, and an evaluation repeated on the same frame with the same sets
\* returns the same sequence of records.
C14_EvaluationIsPure ==
    [][ret'.op = "filter" =>
          /\ e6_df' = e6_df
          /\ ret.op = "filter" =>
                /\ ret'.and_tags = ret.and_tags
                /\ ret'.not_tags = ret.not_tags
                /\ ret'.or_tags = ret.or_tags
                /\ ret'.raised = ret.raised
                /\ ret'.frame = ret.frame]_vars

C14_Witness ==
    /\ FilterReturned
    /\ local.calls = MaxRepeats
    /\ ret.frame # <<>>
    /\ Len(ret.frame) < Len(e6_df)
(***************************************************************************)
(* Properties of DBExport.sync and DBExportManager.sync.                   *)
(***************************************************************************)
ServerAnswers ==
    net.status = 200 /\ net.has_length /\ export.days_ago \in 0..3

Downloaded == net.requests # <<>> /\ net.requests[Len(net.requests)] = "GET"

\* C15: sync downloads the export if and only if refresh is True or the file
\* does not exist: with refresh False and the file present it sends no
\* request and leaves the file as it is; otherwise, the server answering, it
\* returns normally having downloaded, and the file holds the new export.
C15_SyncDownloadsWhenNeeded ==
    ret.op = "sync" =>
        /\ ~export.refresh /\ ret.before.exists =>
              ret.raised = "none" /\ net.requests = <<>> /\ disk = ret.before
        /\ (export.refresh \/ ~ret.before.exists) /\ ServerAnswers =>
              ret.raised = "none" /\ Downloaded /\ disk = ServerFile

\* C16: DBExportManager.sync with a target the manager was not given raises
\* RuntimeError and syncs nothing; with a target it was given it syncs the
\* export of that target and no other.
C16_ManagerSyncByTarget ==
    ret.op = "manager_sync" =>
        LET given == {ret.export_targets[i] : i \in DOMAIN ret.export_targets}
        IN  /\ ret.export_target \notin given =>
                  ret.raised = "RuntimeError" /\ ret.synced = <<>> /\ disk = ret.before
            /\ ret.export_target \in given => ret.synced = <<ret.export_target>>
(***************************************************************************)
(* Property of filter and load run together.                               *)
(***************************************************************************)
\* C13: an evaluation that load overlaps returns what the filter gives on
\* the frame the store held when the evaluation started: it raises nothing
\* and its result is that frame's rows that meet the conditions, in order.
C13_EvaluationSeesOneSnapshot ==
    pc = "threads" /\ local.fpc = "done" =>
        /\ ret.raised = "none"
        /\ ret.frame = SelectSeq(local.snapshot, LAMBDA row : Required \subseteq row.tags)
====
